---- MODULE Spec2Model ----
(***************************************************************************)
(* Model of refresh.py: the player-prop edge pipeline.                     *)
(*                                                                         *)
(*   Spec       one run of main(): fetch_live_props, add_features, the     *)
(*              per-market scoring loop, concat / sort_values / head.      *)
(*   SpecClean  clean_name applied to bounded strings, once and again.     *)
(*                                                                         *)
(* Text is a sequence of one-character strings.  Money-like numbers (line, *)
(* predicted value, edge, PTS ...) are integers counting hundredths; the   *)
(* two averaged features are exact rationals <<n, d>> of hundredths.       *)
(***************************************************************************)
EXTENDS Integers, Sequences, FiniteSets, TLC

VARIABLES
    quotes,          \* the records fetch_live_props collects (props)
    lineDtype,       \* dtype pandas gives the "line" column
    TRAIN_LOGS,      \* season game logs (module global)
    LAST5,           \* rolling-5 table (module global)
    pc,              \* position of main()
    df,              \* main's df
    mi,              \* position of the market loop, 1..3 (4: loop over)
    all_predictions, \* the scored frames appended so far, concatenated
    failed,          \* markets whose predictor raised
    top,             \* the ranked output
    name,            \* SpecClean: the input text
    cleaned,         \* SpecClean: clean_name(name)
    again,           \* SpecClean: clean_name(cleaned)
    cpc              \* SpecClean: position

vars == <<quotes, lineDtype, TRAIN_LOGS, LAST5, pc, df, mi, all_predictions,
          failed, top, name, cleaned, again, cpc>>
mainVars == <<quotes, lineDtype, TRAIN_LOGS, LAST5, pc, df, mi,
              all_predictions, failed, top>>
cleanVars == <<name, cleaned, again, cpc>>

----------------------------------------------------------------------------
(* Bounds *)
MaxQuotes == 2
MaxNameLen == 5

----------------------------------------------------------------------------
(* Text helpers *)

UpperChars == <<"A","B","C","D","E","F","G","H","I","J","K","L","M",
                "N","O","P","Q","R","S","T","U","V","W","X","Y","Z">>
LowerChars == <<"a","b","c","d","e","f","g","h","i","j","k","l","m",
                "n","o","p","q","r","s","t","u","v","w","x","y","z">>
WhitespaceChars == {" ", "\t", "\n"}

UpperSet == {UpperChars[i] : i \in 1..26}
LowerSet == {LowerChars[i] : i \in 1..26}

IsUpper(c) == c \in UpperSet
IsLower(c) == c \in LowerSet
IsSpace(c) == c \in WhitespaceChars

LowerOf == [c \in UpperSet |-> LowerChars[CHOOSE i \in 1..26 : UpperChars[i] = c]]
UpperOf == [c \in LowerSet |-> UpperChars[CHOOSE i \in 1..26 : LowerChars[i] = c]]

ToLower(c) == IF IsUpper(c) THEN LowerOf[c] ELSE c
ToUpper(c) == IF IsLower(c) THEN UpperOf[c] ELSE c

Lower(s) == [i \in 1..Len(s) |-> ToLower(s[i])]
Upper(s) == [i \in 1..Len(s) |-> ToUpper(s[i])]

RECURSIVE LStrip(_)
LStrip(s) == IF s # <<>> /\ IsSpace(Head(s)) THEN LStrip(Tail(s)) ELSE s

RECURSIVE RStrip(_)
RStrip(s) == IF s # <<>> /\ IsSpace(s[Len(s)])
             THEN RStrip(SubSeq(s, 1, Len(s) - 1)) ELSE s

Strip(s) == RStrip(LStrip(s))

\* re.sub(r"\([^)]*\)", "", s): leftmost non-overlapping matches; a match
\* runs from a "(" to the first ")" after it.
RECURSIVE SubParens(_)
SubParens(s) ==
    IF s = <<>> THEN <<>>
    ELSE IF Head(s) = "(" /\ \E j \in 2..Len(s) : s[j] = ")"
         THEN LET j == CHOOSE k \in 2..Len(s) :
                           s[k] = ")" /\ \A m \in 2..(k - 1) : s[m] # ")"
              IN  SubParens(SubSeq(s, j + 1, Len(s)))
         ELSE <<Head(s)>> \o SubParens(Tail(s))

\* re.sub(r"[^A-Za-z\s]", "", s)
KeepLettersSpaces(s) == SelectSeq(s, LAMBDA c : IsUpper(c) \/ IsLower(c) \/ IsSpace(c))

\* a faulty variant of clean_name: strip() applied before the punctuation is removed
clean_name_StripFirst(nm) == KeepLettersSpaces(Strip(Lower(SubParens(nm))))

clean_name(nm) == Strip(Lower(KeepLettersSpaces(SubParens(nm))))

----------------------------------------------------------------------------
(* SpecClean: clean_name on bounded text *)

Alphabet == {"A", "b", "(", ")", " ", "."}

RECURSIVE TextsUpTo(_)
TextsUpTo(n) == IF n = 0 THEN {<<>>}
                ELSE LET shorter == TextsUpTo(n - 1)
                     IN  shorter \cup {Append(t, c) : t \in shorter, c \in Alphabet}

----------------------------------------------------------------------------
(* Numbers *)

Abs(x) == IF x < 0 THEN -x ELSE x
Min(a, b) == IF a < b THEN a ELSE b

RECURSIVE GCD(_, _)
GCD(a, b) == IF b = 0 THEN a ELSE GCD(b, a % b)

\* the exact rational n / d (d > 0, n >= 0), in lowest terms
Rat(n, d) == LET g == GCD(n, d) IN <<n \div g, d \div g>>

RECURSIVE SumSeq(_)
SumSeq(s) == IF s = <<>> THEN 0 ELSE Head(s) + SumSeq(Tail(s))

\* Series.mean() of a non-empty group
Mean(vals) == Rat(SumSeq(vals), Len(vals))

RECURSIVE FlattenSeq(_)
FlattenSeq(ss) == IF ss = <<>> THEN <<>> ELSE Head(ss) \o FlattenSeq(Tail(ss))

----------------------------------------------------------------------------
(* Inputs of a run *)

GameLabel(away, home) == away \o <<" ", "@", " ">> \o home

Markets == <<"player_points", "player_rebounds", "player_assists">>

MarketChars(m) ==
    CASE m = "player_points"   -> <<"p","l","a","y","e","r","_","p","o","i","n","t","s">>
      [] m = "player_rebounds" -> <<"p","l","a","y","e","r","_","r","e","b","o","u","n","d","s">>
      [] m = "player_assists"  -> <<"p","l","a","y","e","r","_","a","s","s","i","s","t","s">>

NameAlParen == <<"A", "l", " ", "(", "L", ")">>
NameAlDot   == <<"A", ".", "l">>
NameBo      == <<"B", "o">>
NameBoDot   == <<"B", ".", "o">>
NameCy      == <<"C", "y">>

Game1 == GameLabel(<<"L">>, <<"D">>)
Game2 == GameLabel(<<"B">>, <<"M">>)

Quote(p, l, pr, g, m) == [player |-> p, line |-> l, price |-> pr, game |-> g, market |-> m]

\* the outcomes the bookmakers can offer, in the order the events are fetched
\* (Over and Under of one line differ in price)
QuotePool ==
    { Quote(NameCy,      2900, -110, Game1, "player_points"),
      Quote(NameBo,      1150, -110, Game1, "player_rebounds"),
      Quote(NameBo,       600, -110, Game1, "player_assists"),
      Quote(NameAlParen, 2550, -110, Game2, "player_points"),
      Quote(NameAlParen, 2550,  105, Game2, "player_points") }

RECURSIVE SeqsUpTo(_, _)
SeqsUpTo(S, n) == IF n = 0 THEN {<<>>}
                  ELSE LET shorter == SeqsUpTo(S, n - 1)
                       IN  shorter \cup {Append(t, x) : t \in shorter, x \in S}

LogRow(p, pts, reb, ast) == [PLAYER_NAME |-> p, PTS |-> pts, REB |-> reb, AST |-> ast]

\* candidate data/player_logs.parquet contents: one row per player per game
SeasonTables ==
    { <<>>,
      << LogRow(NameAlDot, 2000, 500, 300), LogRow(NameBo, 1200, 1100, 200),
         LogRow(NameAlDot, 3300, 700, 400), LogRow(NameBoDot, 1700, 900, 600) >> }

Last5Row(p, v) == [PLAYER_NAME |-> p, rolling5_pts |-> v]

\* candidate cache/last5.parquet contents
Last5Tables ==
    { <<>>,
      << Last5Row(NameBoDot, 1300), Last5Row(NameCy, 2100) >>,
      << Last5Row(NameAlDot, 2800), Last5Row(NameAlParen, 3000) >> }

\* what the fitted predictors can return for a row
Mus == {1500, 2545, 2900}

\* DataFrame(props)["line"]: float64 as soon as one JSON number is a float
LineDtypes(qs) == {"float64"} \cup
                  (IF \A i \in 1..Len(qs) : qs[i].line % 100 = 0 THEN {"int64"} ELSE {})

----------------------------------------------------------------------------
(* add_features *)

\* rows of a table whose cleaned PLAYER_NAME is the key
RowsFor(table, key) == SelectSeq(table, LAMBDA r : clean_name(r.PLAYER_NAME) = key)

ColumnOf(rows, col) == [i \in 1..Len(rows) |-> rows[i][col]]

\* df["clean_player"].map(TRAIN_LOGS...groupby("clean_player").PTS.mean())
\*                   .fillna(df["line"])
SeasonLookup(q) ==
    LET rows == RowsFor(TRAIN_LOGS, clean_name(q.player))
    IN  IF rows = <<>> THEN Rat(q.line, 1) ELSE Mean(ColumnOf(rows, "PTS"))

\* a missing cell of the merged rolling5_pts column; a present one is <<v>>
NaN == <<>>

\* a faulty variant of Rolling5: the missing rolling average filled with the line
Rolling5_FillLine(r5, row) == IF r5 = NaN THEN Rat(row.line, 1) ELSE Rat(r5[1], 1)

\* df["rolling5_pts"].fillna(df["season_pts"])
Rolling5(r5, row) == IF r5 = NaN THEN row.season_pts ELSE Rat(r5[1], 1)

\* df["game"].str.contains(r"\s@\s").astype(int)
HomeFlag(game) ==
    IF \E i \in 1..(Len(game) - 2) :
           IsSpace(game[i]) /\ game[i + 1] = "@" /\ IsSpace(game[i + 2])
    THEN 1 ELSE 0

\* df.merge(last5_clean[["clean_player", "rolling5_pts"]], on="clean_player",
\*          how="left"): for one left row, one output row per matching right
\* row, in the right table's order; a single NaN row when nothing matches
MergeLeft(row) ==
    LET hits == RowsFor(LAST5, clean_name(row.player))
    IN  IF hits = <<>> THEN << NaN >>
        ELSE [k \in 1..Len(hits) |-> << hits[k].rolling5_pts >>]

\* the enriched rows one quote becomes; qi is the quote's position in the input
EnrichedRows(i) ==
    LET q    == quotes[i]
        base == [player |-> q.player, line |-> q.line, price |-> q.price,
                 game |-> q.game, market |-> q.market, qi |-> i,
                 season_pts |-> SeasonLookup(q)]
        r5s  == MergeLeft(base)
    IN  [k \in 1..Len(r5s) |->
            [player |-> base.player, line |-> base.line, price |-> base.price,
             game |-> base.game, market |-> base.market, qi |-> i,
             season_pts |-> base.season_pts,
             rolling5 |-> Rolling5(r5s[k], base),
             home |-> HomeFlag(base.game)]]

add_features == FlattenSeq([i \in 1..Len(quotes) |-> EnrichedRows(i)])

----------------------------------------------------------------------------
(* Scoring: the body of main's market loop *)

TopN == 20

Clip(x, lo, hi) == IF x < lo THEN lo ELSE IF x > hi THEN hi ELSE x

\* Series.round() of a non-negative number of hundredths: to the nearest
\* integer, a half to the even one
RoundHalfEven(x) ==
    LET q == x \div 100
        r == x % 100
    IN  IF r < 50 THEN q
        ELSE IF r > 50 THEN q + 1
        ELSE IF q % 2 = 0 THEN q ELSE q + 1

\* a faulty variant of Conf: the clip(0, 100) left out
Conf_NoClip(edge) == RoundHalfEven(Abs(edge) * 10 + 5000)

\* (edge.abs() * 10 + 50).clip(0, 100).round().astype(int)
Conf(edge) == RoundHalfEven(Clip(Abs(edge) * 10 + 5000, 0, 10000))

Digit(d) == <<"0","1","2","3","4","5","6","7","8","9">>[d + 1]

RECURSIVE NatStr(_)
NatStr(n) == IF n < 10 THEN <<Digit(n)>> ELSE NatStr(n \div 10) \o <<Digit(n % 10)>>

\* a faulty variant of LineStr: a whole float printed without its ".0"
LineStr_NoPointZero(l) ==
    IF l % 100 = 0 THEN NatStr(l \div 100)
    ELSE NatStr(l \div 100) \o <<".">> \o
         (IF l % 10 = 0 THEN <<Digit((l % 100) \div 10)>>
          ELSE <<Digit((l % 100) \div 10), Digit(l % 10)>>)

\* market_df["line"].astype(str): str() of an int64, or the shortest repr of
\* a float64 (always with a decimal point)
LineStr(l) ==
    IF lineDtype = "int64" THEN NatStr(l \div 100)
    ELSE NatStr(l \div 100) \o <<".">> \o
         (IF l % 10 = 0 THEN <<Digit((l % 100) \div 10)>>
          ELSE <<Digit((l % 100) \div 10), Digit(l % 10)>>)

\* str.split(sep)
RECURSIVE SplitOn(_, _)
SplitOn(s, sep) ==
    IF \A i \in 1..Len(s) : s[i] # sep THEN <<s>>
    ELSE LET i == CHOOSE k \in 1..Len(s) : s[k] = sep /\ \A m \in 1..(k - 1) : s[m] # sep
         IN  <<SubSeq(s, 1, i - 1)>> \o SplitOn(SubSeq(s, i + 1, Len(s)), sep)

\* f"{market.split('_')[1].upper()} O " + line.astype(str)
PropLabel(market, l) ==
    Upper(SplitOn(MarketChars(market), "_")[2]) \o <<" ", "O", " ">> \o LineStr(l)

ScoredRow(row, mu) ==
    [player |-> row.player, line |-> row.line, price |-> row.price,
     game |-> row.game, market |-> row.market, qi |-> row.qi,
     season_pts |-> row.season_pts, rolling5 |-> row.rolling5, home |-> row.home,
     mu |-> mu, edge |-> mu - row.line, conf |-> Conf(mu - row.line),
     prop |-> PropLabel(row.market, row.line)]

\* df[df["market"] == market]
MarketDf(m) == SelectSeq(df, LAMBDA r : r.market = m)

----------------------------------------------------------------------------
(* Ranking: sort_values("edge", ascending=False).head(20) *)

MaxEdge(rows, S) == CHOOSE e \in {rows[i].edge : i \in S} :
                        \A j \in S : rows[j].edge <= e

\* every order of the positions S with the edge non-increasing: the default
\* sort kind (quicksort) leaves the order of equal edges open
RECURSIVE DescOrders(_, _)
DescOrders(rows, S) ==
    IF S = {} THEN {<<>>}
    ELSE LET firsts == {i \in S : rows[i].edge = MaxEdge(rows, S)}
         IN  UNION { {<<i>> \o t : t \in DescOrders(rows, S \ {i})} : i \in firsts }

SortValuesDesc(rows) ==
    { [k \in 1..Len(rows) |-> rows[o[k]]] : o \in DescOrders(rows, 1..Len(rows)) }

HeadN(rows, n) == SubSeq(rows, 1, Min(n, Len(rows)))

----------------------------------------------------------------------------
(* The run *)

InitMain ==
    /\ quotes \in SeqsUpTo(QuotePool, MaxQuotes)
    /\ lineDtype \in LineDtypes(quotes)
    /\ TRAIN_LOGS \in SeasonTables
    /\ LAST5 \in Last5Tables
    /\ pc = "start"
    /\ df = <<>>
    /\ mi = 1
    /\ all_predictions = <<>>
    /\ failed = {}
    /\ top = <<>>

IdleClean == name = <<>> /\ cleaned = <<>> /\ again = <<>> /\ cpc = "idle"

Init == InitMain /\ IdleClean

\* fetch_live_props: SystemExit when no prop was collected
Fetch ==
    /\ pc = "start"
    /\ pc' = IF quotes = <<>> THEN "exit" ELSE "fetched"
    /\ UNCHANGED <<quotes, lineDtype, TRAIN_LOGS, LAST5, df, mi,
                   all_predictions, failed, top>>
    /\ UNCHANGED cleanVars

AddFeatures ==
    /\ pc = "fetched"
    /\ df' = add_features
    /\ pc' = "score"
    /\ UNCHANGED <<quotes, lineDtype, TRAIN_LOGS, LAST5, mi,
                   all_predictions, failed, top>>
    /\ UNCHANGED cleanVars

\* one pass of the market loop whose predict() returns
ScoreMarket ==
    /\ pc = "score"
    /\ mi <= Len(Markets)
    /\ LET market_df == MarketDf(Markets[mi])
       IN  IF market_df = <<>>
           THEN all_predictions' = all_predictions
           ELSE \E mus \in [1..Len(market_df) -> Mus] :
                    all_predictions' = all_predictions \o
                        [k \in 1..Len(market_df) |-> ScoredRow(market_df[k], mus[k])]
    /\ mi' = mi + 1
    /\ UNCHANGED <<quotes, lineDtype, TRAIN_LOGS, LAST5, pc, df, failed, top>>
    /\ UNCHANGED cleanVars

\* one pass of the market loop whose predict() raises: nothing catches it
PredictorRaises ==
    /\ pc = "score"
    /\ mi <= Len(Markets)
    /\ MarketDf(Markets[mi]) # <<>>
    /\ failed' = failed \cup {Markets[mi]}
    /\ pc' = "aborted"
    /\ UNCHANGED <<quotes, lineDtype, TRAIN_LOGS, LAST5, df, mi,
                   all_predictions, top>>
    /\ UNCHANGED cleanVars

\* after the loop: concat, sort, head
Rank ==
    /\ pc = "score"
    /\ mi = Len(Markets) + 1
    /\ IF all_predictions = <<>>
       THEN top' = top
       ELSE \E sorted \in SortValuesDesc(all_predictions) :
                top' = HeadN(sorted, TopN)
    /\ pc' = "done"
    /\ UNCHANGED <<quotes, lineDtype, TRAIN_LOGS, LAST5, df, mi,
                   all_predictions, failed>>
    /\ UNCHANGED cleanVars

Next ==
    \/ Fetch
    \/ AddFeatures
    \/ ScoreMarket
    \/ PredictorRaises
    \/ Rank

Spec == Init /\ [][Next]_vars

----------------------------------------------------------------------------
(* SpecClean *)

IdleMain ==
    /\ quotes = <<>> /\ lineDtype = "float64" /\ TRAIN_LOGS = <<>> /\ LAST5 = <<>>
    /\ pc = "idle" /\ df = <<>> /\ mi = 1 /\ all_predictions = <<>>
    /\ failed = {} /\ top = <<>>

InitClean ==
    /\ IdleMain
    /\ name \in TextsUpTo(MaxNameLen)
    /\ cleaned = <<>>
    /\ again = <<>>
    /\ cpc = "input"

Clean ==
    /\ cpc = "input"
    /\ cleaned' = clean_name(name)
    /\ cpc' = "once"
    /\ UNCHANGED <<name, again>>
    /\ UNCHANGED mainVars

CleanAgain ==
    /\ cpc = "once"
    /\ again' = clean_name(cleaned)
    /\ cpc' = "twice"
    /\ UNCHANGED <<name, cleaned>>
    /\ UNCHANGED mainVars

NextClean == Clean \/ CleanAgain

SpecClean == InitClean /\ [][NextClean]_vars

----------------------------------------------------------------------------
(* Properties *)

\* add_features has just returned: df is its result
Enriched == pc = "score" /\ mi = 1

DupKey(r) == <<r.player, r.line, r.game>>

\* C1: the ranked output holds at most one row per (player, line, game), and
\* the row that survives is the first quote of that key in input order
\* (stated for the runs in which add_features kept one row per quote).
C1_DedupFirstSeen ==
    (pc = "done" /\ Len(df) = Len(quotes)) =>
        /\ \A i, j \in 1..Len(top) : DupKey(top[i]) = DupKey(top[j]) => i = j
        /\ \A i \in 1..Len(top) :
               \A j \in 1..Len(quotes) :
                   DupKey(quotes[j]) = DupKey(top[i]) => top[i].qi <= j

\* C2: add_features returns exactly one enriched row per input quote, in
\* input order, whatever the two historical tables hold.
C2_OneRowPerQuote ==
    Enriched =>
        /\ Len(df) = Len(quotes)
        /\ \A i \in 1..Len(df) :
               /\ df[i].qi = i
               /\ df[i].player = quotes[i].player
               /\ df[i].line = quotes[i].line
               /\ df[i].price = quotes[i].price
               /\ df[i].game = quotes[i].game
               /\ df[i].market = quotes[i].market

\* positions of the season-log rows of a quote's normalized identity
LogHits(player) ==
    {k \in 1..Len(TRAIN_LOGS) :
        clean_name(TRAIN_LOGS[k].PLAYER_NAME) = clean_name(player)}

RECURSIVE SumOver(_, _)
SumOver(f, S) == IF S = {} THEN 0
                 ELSE LET k == CHOOSE x \in S : TRUE
                      IN  f[k] + SumOver(f, S \ {k})

\* the rational v is the mean of column col over the log rows at positions S
IsMeanOf(v, col, S) ==
    v[1] * Cardinality(S) = v[2] * SumOver([k \in S |-> TRAIN_LOGS[k][col]], S)

StatColumn(market) ==
    CASE market = "player_points"   -> "PTS"
      [] market = "player_rebounds" -> "REB"
      [] market = "player_assists"  -> "AST"

\* C3: the season average is the grouped mean of the statistic of the
\* quote's own market over the log rows of its normalized identity, and the
\* quote's line when no log row has that identity.
C3_MarketStatistic ==
    Enriched =>
        \A i \in 1..Len(df) :
            LET hits == LogHits(df[i].player)
            IN  IF hits = {}
                THEN df[i].season_pts = <<df[i].line, 1>>
                ELSE IsMeanOf(df[i].season_pts, StatColumn(df[i].market), hits)

Last5Hits(player) ==
    {k \in 1..Len(LAST5) : clean_name(LAST5[k].PLAYER_NAME) = clean_name(player)}

\* C4: a row whose identity has no rolling entry carries its own season
\* average as rolling average; a row whose identity has one carries that
\* entry's value.
C4_RollingFallback ==
    Enriched =>
        \A i \in 1..Len(df) :
            LET hits == Last5Hits(df[i].player)
            IN  IF hits = {}
                THEN df[i].rolling5 = df[i].season_pts
                ELSE \E k \in hits : df[i].rolling5 = <<LAST5[k].rolling5_pts, 1>>

\* a row with a season mean but no rolling entry beside a row whose
\* identity has a rolling entry
C4_Witness ==
    /\ Enriched
    /\ \E i \in 1..Len(df) :
           /\ Last5Hits(df[i].player) = {}
           /\ LogHits(df[i].player) # {}
           /\ df[i].rolling5 # <<df[i].line, 1>>
    /\ \E i \in 1..Len(df) : Last5Hits(df[i].player) # {}

\* position a comes before position b in input order (rows of one quote
\* keep the order add_features gave them)
InputBefore(rows, a, b) ==
    rows[a].qi < rows[b].qi \/ (rows[a].qi = rows[b].qi /\ a < b)

\* the stable descending order: among the largest edges, the earliest input
RECURSIVE StableDescOrder(_, _)
StableDescOrder(rows, S) ==
    IF S = {} THEN <<>>
    ELSE LET firsts == {i \in S : rows[i].edge = MaxEdge(rows, S)}
             i == CHOOSE x \in firsts :
                      \A y \in firsts \ {x} : InputBefore(rows, x, y)
         IN  <<i>> \o StableDescOrder(rows, S \ {i})

\* an output row as the caller sees it: without the input position
Visible(r) == [player |-> r.player, line |-> r.line, price |-> r.price,
               game |-> r.game, market |-> r.market, mu |-> r.mu,
               edge |-> r.edge, conf |-> r.conf, prop |-> r.prop]

\* C5: the output is the scored rows by edge descending, equal edges in
\* input order, cut to the first TopN (stated for the runs in which
\* add_features kept one row per quote).
C5_StableRank ==
    (pc = "done" /\ Len(df) = Len(quotes)) =>
        LET order  == StableDescOrder(all_predictions, 1..Len(all_predictions))
            ranked == HeadN([k \in 1..Len(order) |-> all_predictions[order[k]]], TopN)
        IN  /\ Len(top) = Len(ranked)
            /\ \A k \in 1..Len(top) : Visible(top[k]) = Visible(ranked[k])

HasQuotes(m) == \E i \in 1..Len(quotes) : quotes[i].market = m

\* C6: a predictor failure leaves the run going: the failed market's rows
\* are absent and every other market with quotes is in the output.
C6_Isolation ==
    failed # {} =>
        /\ pc # "aborted"
        /\ pc = "done" =>
               /\ \A i \in 1..Len(top) : top[i].market \notin failed
               /\ \A k \in 1..Len(Markets) :
                      (Markets[k] \notin failed /\ HasQuotes(Markets[k]))
                          => \E i \in 1..Len(top) : top[i].market = Markets[k]

\* C7: edge = predicted - line; the confidence is an integer in 0..100, the
\* nearest to clamp(|edge| * 10 + 50, 0, 100), non-decreasing in |edge|,
\* 50 for an edge of 0 and 100 for every |edge| >= 10.
C7_Confidence ==
    \A i \in 1..Len(all_predictions) :
        LET r   == all_predictions[i]
            raw == Abs(r.edge) * 10 + 5000
            cl  == IF raw > 10000 THEN 10000 ELSE raw
        IN  /\ r.edge = r.mu - r.line
            /\ r.conf \in 0..100
            /\ Abs(r.conf * 100 - cl) <= 50
            /\ (r.edge = 0 => r.conf = 50)
            /\ (Abs(r.edge) >= 1000 => r.conf = 100)
            /\ \A j \in 1..Len(all_predictions) :
                   Abs(all_predictions[j].edge) <= Abs(r.edge)
                       => all_predictions[j].conf <= r.conf

\* an edge of 0, a negative edge beyond -10 and an edge whose raw score ends
\* in a half, scored in one run
C7_Witness ==
    /\ \E i \in 1..Len(all_predictions) : all_predictions[i].edge = 0
    /\ \E i \in 1..Len(all_predictions) : all_predictions[i].edge <= -1000
    /\ \E i \in 1..Len(all_predictions) :
           Abs(all_predictions[i].edge) < 500 /\ Abs(all_predictions[i].edge) % 10 = 5

RECURSIVE IsSubseq(_, _)
IsSubseq(a, b) ==
    IF a = <<>> THEN TRUE
    ELSE IF b = <<>> THEN FALSE
    ELSE IF Head(a) = Head(b) THEN IsSubseq(Tail(a), Tail(b))
    ELSE IsSubseq(a, Tail(b))

\* the parentheses of t pair up
RECURSIVE Depths(_, _)
Depths(t, d) ==
    IF t = <<>> THEN d = 0
    ELSE IF Head(t) = "(" THEN Depths(Tail(t), d + 1)
    ELSE IF Head(t) = ")" THEN d > 0 /\ Depths(Tail(t), d - 1)
    ELSE Depths(Tail(t), d)

Balanced(t) == Depths(t, 0)

\* s[i] opens a parenthesized substring that s[j] closes
Matching(s, i, j) ==
    /\ i < j /\ s[i] = "(" /\ s[j] = ")"
    /\ Balanced(SubSeq(s, i + 1, j - 1))

InsideParens(s, p) ==
    \E i \in 1..Len(s), j \in 1..Len(s) : Matching(s, i, j) /\ i <= p /\ p <= j

RECURSIVE PickOutside(_, _)
PickOutside(s, p) ==
    IF p > Len(s) THEN <<>>
    ELSE (IF InsideParens(s, p) THEN <<>> ELSE <<s[p]>>) \o PickOutside(s, p + 1)

\* s without its parenthesized substrings, at every nesting depth
OutsideParens(s) == PickOutside(s, 1)

\* C8: nothing that stood inside a parenthesized substring, at any nesting
\* depth, is in the result; the result holds only lower-case letters and
\* whitespace and neither starts nor ends with whitespace.
C8_ParensRemoved ==
    cpc \in {"once", "twice"} =>
        /\ IsSubseq(cleaned, Lower(OutsideParens(name)))
        /\ \A i \in 1..Len(cleaned) : IsLower(cleaned[i]) \/ IsSpace(cleaned[i])
        /\ cleaned # <<>> => ~IsSpace(cleaned[1]) /\ ~IsSpace(cleaned[Len(cleaned)])

\* C9: clean_name applied to its own result returns that result.
C9_Idempotent == cpc = "twice" => again = cleaned

\* a text with a parenthetical, punctuation next to whitespace and an
\* upper-case letter, cleaned twice to something non-empty
C9_Witness ==
    /\ cpc = "twice"
    /\ cleaned # <<>> /\ cleaned # name
    /\ \E i \in 1..Len(name) : name[i] = "("
    /\ \E i \in 1..Len(name) : name[i] = "A"
    /\ \E i \in 1..(Len(name) - 1) : name[i] = "." /\ name[i + 1] = " "

StatAbbrev(market) ==
    CASE market = "player_points"   -> <<"P", "T", "S">>
      [] market = "player_rebounds" -> <<"R", "E", "B">>
      [] market = "player_assists"  -> <<"A", "S", "T">>

StatWord(market) ==
    CASE market = "player_points"   -> <<"P", "O", "I", "N", "T", "S">>
      [] market = "player_rebounds" -> <<"R", "E", "B", "O", "U", "N", "D", "S">>
      [] market = "player_assists"  -> <<"A", "S", "S", "I", "S", "T", "S">>

DigitValue(c) == CHOOSE d \in 0..9 : Digit(d) = c

RECURSIVE NatValue(_)
NatValue(t) == IF t = <<>> THEN 0
               ELSE NatValue(SubSeq(t, 1, Len(t) - 1)) * 10 + DigitValue(t[Len(t)])

\* the line with exactly one decimal place
OneDecimal(l) == NatStr(l \div 100) \o <<".", Digit((l % 100) \div 10)>>

\* C10 as claimed: the label is the stat abbreviation of the scenario
\* (points -> PTS), " O ", and the line with exactly one decimal place.
C10_PropLabelPTS ==
    \A i \in 1..Len(all_predictions) :
        LET r == all_predictions[i]
        IN  r.prop = StatAbbrev(r.market) \o <<" ", "O", " ">> \o OneDecimal(r.line)

\* C10 amended: the label is the upper-cased word after "player_" in the
\* market key (POINTS, REBOUNDS, ASSISTS), " O ", and str() of the line: the
\* digits alone when the line column is integer-typed, and otherwise the
\* shortest decimal of the line with at least one decimal place (exactly one
\* for a multiple of 0.1); the 25.5 points quote is labelled "POINTS O 25.5".
C10_PropLabel ==
    \A i \in 1..Len(all_predictions) :
        LET r    == all_predictions[i]
            head == Len(StatWord(r.market)) + 3
            txt  == SubSeq(r.prop, head + 1, Len(r.prop))
            dots == {k \in 1..Len(txt) : txt[k] = "."}
        IN  /\ Len(r.prop) > head
            /\ SubSeq(r.prop, 1, head) = StatWord(r.market) \o <<" ", "O", " ">>
            /\ IF lineDtype = "int64"
               THEN dots = {} /\ NatValue(txt) * 100 = r.line
               ELSE /\ Cardinality(dots) = 1
                    /\ LET k    == CHOOSE x \in dots : TRUE
                           frac == SubSeq(txt, k + 1, Len(txt))
                       IN  /\ NatValue(SubSeq(txt, 1, k - 1)) = r.line \div 100
                           /\ Len(frac) \in {1, 2}
                           /\ Len(frac) = 1 <=> r.line % 10 = 0
                           /\ NatValue(frac) * (IF Len(frac) = 1 THEN 10 ELSE 1)
                                  = r.line % 100
            /\ (r.market = "player_points" /\ r.line = 2550) =>
                   r.prop = <<"P","O","I","N","T","S"," ","O"," ","2","5",".","5">>

\* a 25.5 points line and a whole-number line labelled in one float-typed run
C10_Witness ==
    /\ lineDtype = "float64"
    /\ \E i \in 1..Len(all_predictions) :
           all_predictions[i].market = "player_points" /\ all_predictions[i].line = 2550
    /\ \E i \in 1..Len(all_predictions) : all_predictions[i].line % 100 = 0

====
